---- MODULE Spec2Model ----
(***************************************************************************)
(* Model of the Gemini Agent Workflow client: the App component's state    *)
(* (files, workflowSteps, agentState, error), its auto-executor effect,    *)
(* its handlers, and the service functions generateWorkflowPlan and        *)
(* executeWorkflowStep.                                                     *)
(*                                                                         *)
(* A text is a sequence of tokens (a token stands for a run of characters  *)
(* that the code never splits).  Every synchronous block of a handler is   *)
(* one action: React batches the state updates it makes and applies the    *)
(* functional updaters to the latest state.  An await splits a handler in  *)
(* two actions, with the pending call kept in planCalls / stepCalls /      *)
(* uploads.  The effect runs once after every commit that changed one of   *)
(* its dependencies; effectPending records that such a run is due.         *)
(* Step and file ids (Math.random) are modelled as fresh, distinct values. *)
(***************************************************************************)
EXTENDS Integers, Sequences, FiniteSets, TLC

\* ---------------------------------------------------------------- bounds
MaxPlanLen == 2
MaxCreates == 2
MaxFiles == 1

\* ------------------------------------------------------------ StepStatus
PENDING == "PENDING"
PROCESSING == "PROCESSING"
COMPLETED == "COMPLETED"
FAILED == "FAILED"
StepStatus == {PENDING, PROCESSING, COMPLETED, FAILED}

\* currentStepId: string | null; ids are positive, Null is no id
Null == 0
NoError == "null"
PlanErrorMessage == "Failed to generate a workflow. Please check your API key or try again."
FallbackPlan == <<"Failed to generate plan.">>
StepFailedResult == <<"Failed to execute step.">>

\* ------------------------------------------------------------- sequences
SeqsUpTo(S, n) == UNION {[1..k -> S] : k \in 0..n}

RECURSIVE Join(_, _)
\* Array.prototype.join on an array of texts
Join(parts, sep) ==
  IF parts = <<>> THEN <<>>
  ELSE IF Len(parts) = 1 THEN parts[1]
  ELSE parts[1] \o sep \o Join(Tail(parts), sep)

\* FindIndex whose test holds for every step
FindIndex_AnyStatus(steps, status) ==
  IF steps # <<>> THEN 1 ELSE 0

\* steps.findIndex(s => s.status === status), 1-based; 0 stands for -1
FindIndex(steps, status) ==
  IF \E i \in 1..Len(steps) : steps[i].status = status
  THEN CHOOSE i \in 1..Len(steps) :
         /\ steps[i].status = status
         /\ \A j \in 1..(i - 1) : steps[j].status # status
  ELSE 0

\* ------------------------------------------------------------------ text
WS == " "
OpenThink == "<think>"
CloseThink == "</think>"

RECURSIVE TrimStart(_)
TrimStart(t) == IF t # <<>> /\ Head(t) = WS THEN TrimStart(Tail(t)) ELSE t

RECURSIVE TrimEnd(_)
TrimEnd(t) ==
  IF t # <<>> /\ t[Len(t)] = WS THEN TrimEnd(SubSeq(t, 1, Len(t) - 1)) ELSE t

\* String.prototype.trim
Trim(t) == TrimEnd(TrimStart(t))

\* ThinkMatch with a greedy quantifier: the last </think>
ThinkMatch_Greedy(text) ==
  LET opens == {i \in 1..Len(text) :
                  /\ text[i] = OpenThink
                  /\ \E j \in (i + 1)..Len(text) : text[j] = CloseThink}
  IN IF opens = {} THEN <<>>
     ELSE LET o == CHOOSE i \in opens : \A k \in opens : i <= k
              c == CHOOSE j \in (o + 1)..Len(text) :
                     /\ text[j] = CloseThink
                     /\ \A k \in (j + 1)..Len(text) : text[k] # CloseThink
          IN <<o, c>>

\* text.match(/<think>([\s\S]*?)<\/think>/): the leftmost <think> that has a
\* </think> after it, and (lazy quantifier) the first </think> after it
ThinkMatch(text) ==
  LET opens == {i \in 1..Len(text) :
                  /\ text[i] = OpenThink
                  /\ \E j \in (i + 1)..Len(text) : text[j] = CloseThink}
  IN IF opens = {} THEN <<>>
     ELSE LET o == CHOOSE i \in opens : \A k \in opens : i <= k
              c == CHOOSE j \in (o + 1)..Len(text) :
                     /\ text[j] = CloseThink
                     /\ \A k \in (o + 1)..(j - 1) : text[k] # CloseThink
          IN <<o, c>>

extractThinking(text) ==
  LET thinkMatch == ThinkMatch(text)
  IN IF thinkMatch # <<>>
     THEN [thinking |-> Trim(SubSeq(text, thinkMatch[1] + 1, thinkMatch[2] - 1)),
           content |-> Trim(SubSeq(text, 1, thinkMatch[1] - 1)
                            \o SubSeq(text, thinkMatch[2] + 1, Len(text)))]
     ELSE [thinking |-> <<>>, content |-> text]

\* ------------------------------------------------- generateWorkflowPlan
PlanDescriptions == <<"d1", "d2", "d3", "d4">>
Descriptions == {PlanDescriptions[i] : i \in 1..Len(PlanDescriptions)}
Prose == "txt"
LBracket == "["
RBracket == "]"
Comma == ","

\* response.match(/\[[\s\S]*\]/): from the leftmost "[" that has a "]" after
\* it to (greedy quantifier) the last "]"
JsonMatch(response) ==
  LET opens == {i \in 1..Len(response) :
                  /\ response[i] = LBracket
                  /\ \E j \in (i + 1)..Len(response) : response[j] = RBracket}
  IN IF opens = {} THEN <<>>
     ELSE LET o == CHOOSE i \in opens : \A k \in opens : i <= k
              c == CHOOSE j \in (o + 1)..Len(response) :
                     /\ response[j] = RBracket
                     /\ \A k \in (j + 1)..Len(response) : response[k] # RBracket
          IN <<SubSeq(response, o, c)>>

\* JSON.parse on an array literal of strings: "[" "]" or "[" s ("," s)* "]".
\* Anything else is a SyntaxError (the replies drawn never nest arrays).
JsonParse(lit) ==
  LET n == Len(lit)
      inner == SubSeq(lit, 2, n - 1)
      ok == /\ n >= 2 /\ lit[1] = LBracket /\ lit[n] = RBracket
            /\ \/ inner = <<>>
               \/ /\ Len(inner) % 2 = 1
                  /\ \A i \in 1..Len(inner) :
                       IF i % 2 = 1 THEN inner[i] \in Descriptions
                       ELSE inner[i] = Comma
  IN IF ok
     THEN [threw |-> FALSE,
           value |-> [k \in 1..((Len(inner) + 1) \div 2) |-> inner[2 * k - 1]]]
     ELSE [threw |-> TRUE, value |-> <<>>]

\* What the plan call produced: the chat completion rejected, or a reply text
TransportError == [rejected |-> TRUE, response |-> <<>>]
Reply(response) == [rejected |-> FALSE, response |-> response]

generateWorkflowPlan(completion) ==
  IF completion.rejected THEN [threw |-> TRUE, value |-> <<>>]
  ELSE LET jsonMatch == JsonMatch(completion.response)
       IN IF jsonMatch = <<>> THEN [threw |-> FALSE, value |-> FallbackPlan]
          ELSE JsonParse(jsonMatch[1])

\* -------------------------------------------------- executeWorkflowStep
Truthy(text) == text # <<>>

HistoryEntry(s) ==
  <<"PREVIOUS STEP: \"", s.description, "\"\nRESULT: ">> \o s.result \o <<"\n">>

\* HistoryEntries without the status test of the filter
HistoryEntries_AnyStatus(previousSteps) ==
  LET kept == SelectSeq(previousSteps,
                LAMBDA s : "result" \in DOMAIN s /\ Truthy(s.result))
  IN [i \in 1..Len(kept) |-> HistoryEntry(kept[i])]

HistoryEntries(previousSteps) ==
  LET kept == SelectSeq(previousSteps,
                LAMBDA s : /\ s.status = COMPLETED
                           /\ "result" \in DOMAIN s
                           /\ Truthy(s.result))
  IN [i \in 1..Len(kept) |-> HistoryEntry(kept[i])]

HistoryContext(previousSteps) == Join(HistoryEntries(previousSteps), <<"\n---\n">>)

\* What the streamed call produced: it threw (an Error with a message, or some
\* other value), or the concatenated chunks
UnknownError == "Unknown error"
StreamError(isError, message) ==
  [failed |-> TRUE, isError |-> isError, message |-> message, text |-> <<>>]
StreamText(text) ==
  [failed |-> FALSE, isError |-> FALSE, message |-> "", text |-> text]

\* executeWorkflowStep whose catch block throws the error on
executeWorkflowStep_Rethrows(stream) ==
  IF stream.failed
  THEN [rejected |-> TRUE, result |-> <<>>, thinking |-> <<>>]
  ELSE LET split == extractThinking(stream.text)
       IN [rejected |-> FALSE, result |-> split.content, thinking |-> split.thinking]

\* the value the promise of executeWorkflowStep settles with
executeWorkflowStep(stream) ==
  IF stream.failed
  THEN [rejected |-> FALSE,
        result |-> <<"Error executing step: ",
                     IF stream.isError THEN stream.message ELSE UnknownError>>,
        thinking |-> <<>>]
  ELSE LET split == extractThinking(stream.text)
       IN [rejected |-> FALSE, result |-> split.content, thinking |-> split.thinking]

\* ------------------------------------------------------ inputs (bounded)
\* replies of the plan call: prose, an array literal of up to MaxPlanLen
\* descriptions (the first ones of PlanDescriptions, in that order or in the
\* reverse order) with or without prose around it, and broken literals
ArrayLiteral(items) ==
  <<LBracket>> \o Join([i \in 1..Len(items) |-> <<items[i]>>], <<Comma>>) \o <<RBracket>>

PlanResponses ==
  LET around == {<<>>, <<Prose>>}
      plans == {SubSeq(PlanDescriptions, 1, n) : n \in 0..MaxPlanLen}
               \cup {<<"d2", "d1">>}
      lits == {ArrayLiteral(items) : items \in plans}
  IN {pre \o lit \o pre : pre \in around, lit \in lits}
     \cup {<<>>, <<Prose>>, <<LBracket, "d1">>, <<RBracket, Prose, LBracket>>}
     \cup {<<LBracket, "d1", Comma, RBracket>>, <<LBracket, Prose, RBracket>>,
           <<LBracket, "d1", RBracket, Prose, RBracket>>}

PlanCompletions == {TransportError} \cup {Reply(r) : r \in PlanResponses}

\* outcomes of the streamed step call
StepStreams ==
  {StreamError(TRUE, "network")}
  \cup {StreamText(<<OpenThink, "t1", CloseThink, WS, "r1">>)}

FileNames == {"main.py"}
Selections == SeqsUpTo(FileNames, MaxFiles) \ {<<>>}

\* ----------------------------------------------------------------- state
VARIABLES
  files,          \* App state: UploadedFile[] (the names, in order)
  workflowSteps,  \* App state: WorkflowStep[]
  agentState,     \* App state: AgentState
  error,          \* App state: string | null
  effectPending,  \* a dependency of the auto-executor changed since it last ran
  planCalls,      \* handleCreateWorkflow invocations awaiting generateWorkflowPlan
  stepCalls,      \* executeNextStep invocations awaiting executeWorkflowStep
  staleCalls,     \* how many more of them await for a step of a replaced list
  uploads,        \* processFiles invocations awaiting Promise.all
  creates,        \* create-workflow requests so far
  lastOutcome,    \* history: what the awaited call gave, right after it settled
  lastSettled,    \* history: the value it settled with, right after it settled
  afterReset,     \* history: reset has run, and since then no create-workflow
                  \* request was made and the list has stayed empty
  input,          \* the argument of a function checked on its own
  output          \* what the function returned for it

\* the state of the application
app == <<files, workflowSteps, agentState, error, effectPending, planCalls,
         stepCalls, staleCalls, uploads, creates, lastOutcome, lastSettled,
         afterReset>>

vars == <<files, workflowSteps, agentState, error, effectPending, planCalls,
          stepCalls, staleCalls, uploads, creates, lastOutcome, lastSettled,
          afterReset, input, output>>

NoOutcome == ""
NoSettled == "none"
NoValue == [called |-> FALSE]

IdleAgentState == [isAnalyzing |-> FALSE, isExecuting |-> FALSE, currentStepId |-> Null]

\* state after the first render: the effect has run once and returned at once
InitApp ==
  /\ files = <<>>
  /\ workflowSteps = <<>>
  /\ agentState = IdleAgentState
  /\ error = NoError
  /\ effectPending = FALSE
  /\ planCalls = 0
  /\ stepCalls = {}
  /\ staleCalls = 0
  /\ uploads = <<>>
  /\ creates = 0
  /\ lastOutcome = NoOutcome
  /\ lastSettled = NoSettled
  /\ afterReset = FALSE

Init ==
  /\ InitApp
  /\ input = NoValue
  /\ output = NoValue

\* SetStep without the comparison of ids
SetStep_EveryStep(steps, id, patch) ==
  [i \in 1..Len(steps) |-> patch @@ steps[i]]

\* prev.map(s => s.id === id ? { ...s, ...patch } : s)
SetStep(steps, id, patch) ==
  [i \in 1..Len(steps) |-> IF steps[i].id = id THEN patch @@ steps[i] ELSE steps[i]]

\* FileUpload's disabled prop
UploadDisabled == agentState.isAnalyzing \/ agentState.isExecuting

\* the Generate & Run button's disabled attribute
CreateDisabled == Len(files) = 0 \/ agentState.isAnalyzing \/ agentState.isExecuting

\* ------------------------------------------------------- auto-executor
\* one run of the effect: executeNextStep up to its await
Effect ==
  /\ effectPending
  /\ IF ~agentState.isExecuting
     THEN /\ effectPending' = FALSE
          /\ lastOutcome' = NoOutcome
          /\ UNCHANGED <<workflowSteps, agentState, stepCalls>>
     ELSE LET nextStepIndex == FindIndex(workflowSteps, PENDING)
          IN IF nextStepIndex = 0
             THEN /\ agentState' = [agentState EXCEPT !.isExecuting = FALSE,
                                                      !.currentStepId = Null]
                  /\ effectPending' = TRUE
                  /\ lastOutcome' = NoOutcome
                  /\ UNCHANGED <<workflowSteps, stepCalls>>
             ELSE LET nextStep == workflowSteps[nextStepIndex]
                  IN /\ workflowSteps' =
                          SetStep(workflowSteps, nextStep.id, [status |-> PROCESSING])
                     /\ agentState' = [agentState EXCEPT !.currentStepId = nextStep.id]
                     /\ stepCalls' = stepCalls \cup
                          {[id |-> nextStep.id,
                            context |-> HistoryContext(workflowSteps)]}
                     /\ effectPending' = TRUE
                     /\ lastOutcome' = NoOutcome
  /\ lastSettled' = NoSettled
  /\ UNCHANGED <<files, error, planCalls, staleCalls, uploads, creates,
                 afterReset, input, output>>

\* The steps of a replaced list are gone for good (ids are never reused), so
\* the calls awaiting for them are only counted; RetiredCall stands for any
\* of them: its id is the id of no step
RetiredCall == [id |-> Null, context |-> <<>>]

AwaitedStepCalls == stepCalls \cup (IF staleCalls > 0 THEN {RetiredCall} ELSE {})

\* setWorkflowSteps(list): the calls in flight now await for steps that are gone
Retire ==
  /\ stepCalls' = {}
  /\ staleCalls' = staleCalls + Cardinality(stepCalls)

\* executeNextStep after its await: the call c settles
StepReturn(c, stream) ==
  /\ c \in AwaitedStepCalls
  /\ IF c \in stepCalls
     THEN stepCalls' = stepCalls \ {c} /\ UNCHANGED staleCalls
     ELSE staleCalls' = staleCalls - 1 /\ UNCHANGED stepCalls
  /\ LET settled == executeWorkflowStep(stream)
     IN IF ~settled.rejected
        THEN /\ workflowSteps' =
                  SetStep(workflowSteps, c.id,
                          [status |-> COMPLETED,
                           result |-> settled.result,
                           thinking |-> settled.thinking])
             /\ UNCHANGED agentState
        ELSE /\ workflowSteps' =
                  SetStep(workflowSteps, c.id,
                          [status |-> FAILED, result |-> StepFailedResult])
             /\ agentState' = [agentState EXCEPT !.isExecuting = FALSE]
  /\ effectPending' = TRUE
  /\ lastOutcome' = IF stream.failed THEN "streamFailed" ELSE "streamDone"
  /\ lastSettled' = NoSettled
  /\ UNCHANGED <<files, error, planCalls, uploads, creates, afterReset,
                 input, output>>

\* ------------------------------------------------------------- handlers
\* handleCreateWorkflow up to its await, reached through the button
handleCreateWorkflow ==
  /\ ~CreateDisabled
  /\ Len(files) # 0
  /\ creates < MaxCreates
  /\ creates' = creates + 1
  /\ agentState' = [agentState EXCEPT !.isAnalyzing = TRUE]
  /\ error' = NoError
  /\ workflowSteps' = <<>>
  /\ planCalls' = planCalls + 1
  /\ effectPending' = TRUE
  /\ lastOutcome' = NoOutcome
  /\ lastSettled' = NoSettled
  /\ afterReset' = FALSE
  /\ Retire
  /\ UNCHANGED <<files, uploads, input, output>>

\* Math.random().toString(36).substring(2, 9): an id no earlier plan used
\* (creates - planCalls plan calls have settled before this one)
NewId(i) == (creates - planCalls) * (MaxPlanLen + 1) + i

\* NewSteps with the descriptions taken from the end of the plan
NewSteps_Reversed(planStrings) ==
  [i \in 1..Len(planStrings) |->
     [id |-> NewId(i),
      description |-> planStrings[Len(planStrings) + 1 - i],
      status |-> PENDING]]

\* planStrings.map(desc => ({ id, description: desc, status: PENDING }))
NewSteps(planStrings) ==
  [i \in 1..Len(planStrings) |->
     [id |-> NewId(i),
      description |-> planStrings[i],
      status |-> PENDING]]

PlanKind(completion) ==
  IF completion.rejected THEN "transportError"
  ELSE IF JsonMatch(completion.response) = <<>> THEN "noArray"
  ELSE IF JsonParse(JsonMatch(completion.response)[1]).threw THEN "parseError"
  ELSE "array"

\* handleCreateWorkflow after its await: a plan call settles
PlanReturn(completion) ==
  /\ planCalls > 0
  /\ planCalls' = planCalls - 1
  /\ LET plan == generateWorkflowPlan(completion)
     IN IF ~plan.threw
        THEN LET planStrings == plan.value
                 newSteps == NewSteps(planStrings)
             IN /\ workflowSteps' = newSteps
                /\ agentState' = [agentState EXCEPT !.isAnalyzing = FALSE,
                                                    !.isExecuting = TRUE]
                /\ effectPending' = TRUE
                /\ Retire
                /\ UNCHANGED error
        ELSE /\ error' = PlanErrorMessage
             /\ agentState' = [agentState EXCEPT !.isAnalyzing = FALSE]
             /\ UNCHANGED <<workflowSteps, effectPending, stepCalls, staleCalls>>
  /\ lastOutcome' = PlanKind(completion)
  /\ lastSettled' = IF completion.rejected THEN NoSettled ELSE completion.response
  /\ afterReset' = (afterReset /\ workflowSteps' = <<>>)
  /\ UNCHANGED <<files, uploads, creates, input, output>>

\* handleReset that turns the two flags off and keeps currentStepId
handleReset_KeepsCurrentStep ==
  /\ files' = <<>>
  /\ workflowSteps' = <<>>
  /\ agentState' = [agentState EXCEPT !.isAnalyzing = FALSE, !.isExecuting = FALSE]
  /\ error' = NoError
  /\ effectPending' = TRUE
  /\ lastOutcome' = "reset"
  /\ lastSettled' = NoSettled
  /\ afterReset' = TRUE
  /\ Retire
  /\ UNCHANGED <<planCalls, uploads, creates, input, output>>

handleReset ==
  /\ files' = <<>>
  /\ workflowSteps' = <<>>
  /\ agentState' = IdleAgentState
  /\ error' = NoError
  /\ effectPending' = TRUE
  /\ lastOutcome' = "reset"
  /\ lastSettled' = NoSettled
  /\ afterReset' = TRUE
  /\ Retire
  /\ UNCHANGED <<planCalls, uploads, creates, input, output>>

\* ----------------------------------------------------------- FileUpload
\* handleDrop / handleFileInput: processFiles up to its await, as long as no
\* more than limit files are around
processFilesWithin(fileList, limit) ==
  /\ ~UploadDisabled
  /\ Len(files) + Len(Join(uploads, <<>>)) + Len(fileList) <= limit
  /\ uploads' = Append(uploads, fileList)
  /\ lastOutcome' = NoOutcome
  /\ lastSettled' = NoSettled
  /\ UNCHANGED <<files, workflowSteps, agentState, error, effectPending,
                 planCalls, stepCalls, staleCalls, creates, afterReset,
                 input, output>>

processFiles(fileList) == processFilesWithin(fileList, MaxFiles)

\* processFiles after its await: Promise.all over readFileContent settles;
\* readable[i] tells whether reading file i resolved
FilesRead(k) ==
  /\ k \in 1..Len(uploads)
  /\ uploads' = [i \in 1..(Len(uploads) - 1) |->
                   IF i < k THEN uploads[i] ELSE uploads[i + 1]]
  /\ \E readable \in [1..Len(uploads[k]) -> BOOLEAN] :
       /\ IF \A i \in 1..Len(uploads[k]) : readable[i]
          THEN /\ files' = files \o uploads[k]
               /\ effectPending' = TRUE
          ELSE UNCHANGED <<files, effectPending>>
       /\ lastSettled' = [fileList |-> uploads[k], readable |-> readable]
  /\ lastOutcome' = "filesRead"
  /\ UNCHANGED <<workflowSteps, agentState, error, planCalls, stepCalls,
                 staleCalls, creates, afterReset, input, output>>

\* removeFile: ids are distinct, so the filter drops exactly the clicked file
removeFile(k) ==
  /\ ~UploadDisabled
  /\ k \in 1..Len(files)
  /\ files' = [i \in 1..(Len(files) - 1) |-> IF i < k THEN files[i] ELSE files[i + 1]]
  /\ effectPending' = TRUE
  /\ lastOutcome' = NoOutcome
  /\ lastSettled' = NoSettled
  /\ UNCHANGED <<workflowSteps, agentState, error, planCalls, stepCalls,
                 staleCalls, uploads, creates, afterReset, input, output>>

\* --------------------------------------------------------- specification
Next ==
  \/ Effect
  \/ \E c \in AwaitedStepCalls, stream \in StepStreams : StepReturn(c, stream)
  \/ handleCreateWorkflow
  \/ \E completion \in PlanCompletions : PlanReturn(completion)
  \/ handleReset
  \/ \E fileList \in Selections : processFiles(fileList)
  \/ \E k \in 1..Len(uploads) : FilesRead(k)
  \/ \E k \in 1..Len(files) : removeFile(k)

Spec == Init /\ [][Next]_vars

\* ------------------------------------------------- the runs on their own
\* The files are there and the user only asks for workflows and resets.
\* React runs a scheduled effect, and every model call that was issued
\* settles in the end
InitRun ==
  /\ files = <<"main.py">>
  /\ workflowSteps = <<>>
  /\ agentState = IdleAgentState
  /\ error = NoError
  /\ effectPending = FALSE
  /\ planCalls = 0
  /\ stepCalls = {}
  /\ staleCalls = 0
  /\ uploads = <<>>
  /\ creates = 0
  /\ lastOutcome = NoOutcome
  /\ lastSettled = NoSettled
  /\ afterReset = FALSE
  /\ input = NoValue
  /\ output = NoValue

SomeStepReturns ==
  \E c \in AwaitedStepCalls, stream \in StepStreams : StepReturn(c, stream)

SomePlanReturns == \E completion \in PlanCompletions : PlanReturn(completion)

NextRun ==
  \/ Effect
  \/ SomeStepReturns
  \/ handleCreateWorkflow
  \/ SomePlanReturns
  \/ handleReset

SpecRun ==
  /\ InitRun
  /\ [][NextRun]_vars
  /\ WF_vars(Effect)
  /\ WF_vars(SomeStepReturns)
  /\ WF_vars(SomePlanReturns)

\* ------------------------------------------------ FileUpload on its own
\* the component while nothing is planned or run: selections of several files
MaxSelection == 3

UploadNames == {"main.py", "report.docx"}
UploadSelections == SeqsUpTo(UploadNames, MaxSelection) \ {<<>>}

handleDrop(fileList) == processFilesWithin(fileList, MaxSelection)

NextUpload ==
  \/ \E fileList \in UploadSelections : handleDrop(fileList)
  \/ \E k \in 1..Len(uploads) : FilesRead(k)
  \/ \E k \in 1..Len(files) : removeFile(k)

SpecUpload == Init /\ [][NextUpload]_vars

\* ------------------------------------------- the functions on their own
\* a function is applied once to an argument drawn from a bounded set
MaxTextLen == 5

\* model output: texts made of the two tags, white space and other text
Texts == SeqsUpTo({OpenThink, CloseThink, WS, "x"}, MaxTextLen)

InitExtractThinking ==
  /\ InitApp
  /\ input \in Texts
  /\ output = NoValue

CallExtractThinking ==
  /\ output = NoValue
  /\ output' = [called |-> TRUE, value |-> extractThinking(input)]
  /\ UNCHANGED <<app, input>>

SpecExtractThinking == InitExtractThinking /\ [][CallExtractThinking]_vars

\* what the streamed call of executeWorkflowStep can produce
StreamOutcomes ==
  {StreamError(isError, message) :
     isError \in BOOLEAN, message \in {"network", ""}}
  \cup {StreamText(text) : text \in Texts}

InitExecuteStep ==
  /\ InitApp
  /\ input \in StreamOutcomes
  /\ output = NoValue

CallExecuteWorkflowStep ==
  /\ output = NoValue
  /\ output' = [called |-> TRUE, value |-> executeWorkflowStep(input)]
  /\ UNCHANGED <<app, input>>

SpecExecuteStep == InitExecuteStep /\ [][CallExecuteWorkflowStep]_vars

\* ------------------------------------------------------ getFileCategory
\* A file name is a sequence of tokens: the dot and runs of other characters;
\* a media type is a sequence of tokens too
MaxNameLen == 3

Dot == "."
CodeExtensions ==
  {"py", "js", "ts", "tsx", "c", "cpp", "h", "java", "go", "rs", "html", "css",
   "json", "md"}
DocumentExtensions == {"doc", "docx", "ppt", "pptx", "txt"}

\* String.prototype.toLowerCase of one token
LowerToken(token) ==
  CASE token = "PY" -> "py"
    [] token = "Docx" -> "docx"
    [] OTHER -> token

\* filename.split('.').pop()?.toLowerCase(): what follows the last dot, the
\* whole name when it has no dot
Extension(filename) ==
  LET dots == {i \in 1..Len(filename) : filename[i] = Dot}
      last == IF dots = {} THEN 0 ELSE CHOOSE i \in dots : \A k \in dots : k <= i
      popped == SubSeq(filename, last + 1, Len(filename))
  IN [i \in 1..Len(popped) |-> LowerToken(popped[i])]

\* list.includes(ext || ''): ext is one of the listed strings
ListIncludes(list, ext) == Len(ext) = 1 /\ ext[1] \in list

PdfType == <<"application/", "pdf">>

getFileCategory(filename, type) ==
  LET ext == Extension(filename)
  IN IF ListIncludes(CodeExtensions, ext) THEN "code"
     ELSE IF type = PdfType \/ ext = <<"pdf">> THEN "pdf"
     ELSE IF type # <<>> /\ type[1] = "image/" THEN "image"
     ELSE IF \/ ListIncludes(DocumentExtensions, ext)
             \/ \E i \in 1..Len(type) : type[i] \in {"text", "document"}
          THEN "document"
     ELSE "unknown"

FileNameTokens == {Dot, "c", "PY", "pdf", "Docx", "name"}
Filenames == SeqsUpTo(FileNameTokens, MaxNameLen) \ {<<>>}

MediaTypes ==
  {<<>>, PdfType, <<"image/", "png">>, <<"text", "/plain">>,
   <<"application/", "vnd.", "document">>, <<"application/", "octet-stream">>,
   <<"x-", "image/">>}

InitCategory ==
  /\ InitApp
  /\ input \in [name : Filenames, type : MediaTypes]
  /\ output = NoValue

CallGetFileCategory ==
  /\ output = NoValue
  /\ output' = [called |-> TRUE, value |-> getFileCategory(input.name, input.type)]
  /\ UNCHANGED <<app, input>>

SpecCategory == InitCategory /\ [][CallGetFileCategory]_vars

\* ------------------------------------------------ WorkflowList, one step
\* Step content is a sequence of tokens: the fence of three backquotes (written
\* F below), a run of word
\* characters, a line break, and a run of FillerLength characters that are
\* none of these
MaxResultLen == 5
FillerLength == 499
ReportLength == 500

Fence == "<fence>"
Word == "py"
NewLine == "\n"
Filler == "..."

IsWord(token) == token = Word

\* String.prototype.length of one token
TokenLength(token) ==
  CASE token = Fence -> 3
    [] token = Word -> 2
    [] token = NewLine -> 1
    [] token = Filler -> FillerLength
    [] token = "Failed to execute step." -> 23
    [] OTHER -> 1

RECURSIVE StringLength(_)
\* String.prototype.length
StringLength(text) ==
  IF text = <<>> THEN 0 ELSE TokenLength(Head(text)) + StringLength(Tail(text))

\* String.prototype.includes, on sequences of characters
Includes(text, needle) ==
  \E i \in 0..(Len(text) - Len(needle)) :
    SubSeq(text, i + 1, i + Len(needle)) = needle

\* String.prototype.toLowerCase, on sequences of characters
LowerCase ==
  ("W" :> "w") @@ ("R" :> "r") @@ ("I" :> "i") @@ ("T" :> "t") @@ ("E" :> "e")
  @@ ("P" :> "p") @@ ("O" :> "o") @@ ("S" :> "s") @@ ("D" :> "d")
toLowerCase(text) ==
  [i \in 1..Len(text) |->
     IF text[i] \in DOMAIN LowerCase THEN LowerCase[text[i]] ELSE text[i]]

NoCode == [found |-> FALSE]

\* markdown.match(/F(\w+)?\n([\s\S]*?)F/): the leftmost fence that is
\* followed by word characters (or nothing), a line break and, anywhere
\* after it, a fence; the code ends at the first such fence
extractCode(markdown) ==
  LET lineBreak(i) == {n \in (i + 1)..Len(markdown) :
                         /\ markdown[n] = NewLine
                         /\ \A k \in (i + 1)..(n - 1) : IsWord(markdown[k])}
      closing(n) == {j \in (n + 1)..Len(markdown) : markdown[j] = Fence}
      starts == {i \in 1..Len(markdown) :
                   /\ markdown[i] = Fence
                   /\ \E n \in lineBreak(i) : closing(n) # {}}
  IN IF starts = {} THEN NoCode
     ELSE LET i == CHOOSE a \in starts : \A b \in starts : a <= b
              n == CHOOSE a \in lineBreak(i) : TRUE
              j == CHOOSE a \in closing(n) : \A b \in closing(n) : a <= b
          IN [found |-> TRUE,
              language |-> IF n > i + 1 THEN SubSeq(markdown, i + 1, n - 1)
                           ELSE <<"txt">>,
              code |-> SubSeq(markdown, n + 1, j - 1)]

\* step.result ? extractCode(step.result) : null
CodeData(step) ==
  IF "result" \in DOMAIN step /\ Truthy(step.result)
  THEN extractCode(step.result) ELSE NoCode

\* the words looked for in the description
ReportWords ==
  {<<"r", "e", "p", "o", "r", "t">>, <<"d", "o", "c", "u", "m", "e", "n", "t">>,
   <<"w", "r", "i", "t", "e">>, <<"s", "u", "m", "m", "a", "r">>}

\* isPotentialReport without the test of codeData
isPotentialReport_IgnoresCode(step, codeData) ==
  /\ step.status = COMPLETED
  /\ \/ \E word \in ReportWords : Includes(toLowerCase(step.description), word)
     \/ /\ "result" \in DOMAIN step
        /\ Truthy(step.result)
        /\ StringLength(step.result) > ReportLength

\* the truth value of isPotentialReport
isPotentialReport(step, codeData) ==
  /\ ~codeData.found
  /\ step.status = COMPLETED
  /\ \/ \E word \in ReportWords : Includes(toLowerCase(step.description), word)
     \/ /\ "result" \in DOMAIN step
        /\ Truthy(step.result)
        /\ StringLength(step.result) > ReportLength

\* what one step of the list is rendered with: the classification and the
\* two download buttons
RenderStep(step) ==
  LET codeData == CodeData(step)
      report == isPotentialReport(step, codeData)
      shown == "result" \in DOMAIN step /\ Truthy(step.result)
  IN [codeData |-> codeData,
      isPotentialReport |-> report,
      downloadCode |-> shown /\ codeData.found,
      downloadReport |-> shown /\ report]

\* descriptions as sequences of characters
StepDescriptions ==
  {<<"F", "i", "x">>, <<"W", "r", "i", "t", "e">>,
   <<"R", "E", "P", "O", "R", "T">>, <<"S", "u", "m", "m", "a", "r", "y">>}

StepResults == SeqsUpTo({Fence, Word, NewLine, Filler}, MaxResultLen)

\* the steps the list can hold: a result comes with COMPLETED or FAILED
RenderedSteps ==
  {[id |-> 1, description |-> d, status |-> st] :
     d \in StepDescriptions, st \in {PENDING, PROCESSING}}
  \cup {[id |-> 1, description |-> d, status |-> COMPLETED,
         result |-> r, thinking |-> <<>>] :
          d \in StepDescriptions, r \in StepResults}
  \cup {[id |-> 1, description |-> d, status |-> FAILED,
         result |-> StepFailedResult] : d \in StepDescriptions}

InitRender ==
  /\ InitApp
  /\ input \in RenderedSteps
  /\ output = NoValue

CallRenderStep ==
  /\ output = NoValue
  /\ output' = [called |-> TRUE, value |-> RenderStep(input)]
  /\ UNCHANGED <<app, input>>

SpecRender == InitRender /\ [][CallRenderStep]_vars

\* ------------------------------------------- the Step Executor on its own
\* executeWorkflowStep applied to the step lists the program builds: a step
\* has no result until it is COMPLETED (any content, the error message
\* included) or FAILED (the loop's message)
MaxSteps == 2

StepShapes(id) ==
  {[id |-> id, description |-> d, status |-> st] :
     d \in Descriptions, st \in {PENDING, PROCESSING}}
  \cup {[id |-> id, description |-> d, status |-> COMPLETED,
         result |-> r, thinking |-> <<>>] :
          d \in Descriptions,
          r \in {<<>>, <<"r1">>, <<"Error executing step: ", "network">>}}
  \cup {[id |-> id, description |-> d, status |-> FAILED,
         result |-> StepFailedResult] : d \in Descriptions}

StepLists ==
  UNION {{list \in [1..n -> UNION {StepShapes(id) : id \in 1..n}] :
            \A i \in 1..n : list[i].id = i} : n \in 1..MaxSteps}

InitExecutor ==
  /\ workflowSteps \in StepLists
  /\ files = <<"main.py">>
  /\ agentState = [IdleAgentState EXCEPT !.isExecuting = TRUE]
  /\ error = NoError
  /\ effectPending = FALSE
  /\ planCalls = 0
  /\ stepCalls = {}
  /\ staleCalls = 0
  /\ uploads = <<>>
  /\ creates = 1
  /\ lastOutcome = NoOutcome
  /\ lastSettled = NoSettled
  /\ afterReset = FALSE
  /\ input = NoValue
  /\ output = NoValue

\* executeWorkflowStep(step, files, previousSteps) up to its streamed call
InvokeExecutor(i) ==
  /\ i \in 1..Len(workflowSteps)
  /\ stepCalls = {}
  /\ stepCalls' = {[id |-> workflowSteps[i].id,
                    context |-> HistoryContext(workflowSteps)]}
  /\ UNCHANGED <<files, workflowSteps, agentState, error, effectPending,
                 planCalls, staleCalls, uploads, creates, lastOutcome,
                 lastSettled, afterReset, input, output>>

NextExecutor == \E i \in 1..Len(workflowSteps) : InvokeExecutor(i)

SpecExecutor == InitExecutor /\ [][NextExecutor]_vars

\* ================================================================ claims
Terminal(s) == s.status \in {COMPLETED, FAILED}

\* the list is the same plan before and after the step (not replaced)
SamePlan ==
  /\ Len(workflowSteps') = Len(workflowSteps)
  /\ \A i \in 1..Len(workflowSteps) : workflowSteps'[i].id = workflowSteps[i].id

\* needle occurs in text as a contiguous run
IsInfix(needle, text) ==
  \E i \in 0..(Len(text) - Len(needle)) :
    SubSeq(text, i + 1, i + Len(needle)) = needle

IsErrorMessage(r) ==
  r = StepFailedResult \/ (r # <<>> /\ r[1] = "Error executing step: ")

\* the step's model call has failed: it is FAILED, or carries the message the
\* executor makes of a failed call
HasFailed(s) ==
  s.status = FAILED \/ ("result" \in DOMAIN s /\ IsErrorMessage(s.result))

\* C1: strict sequentiality - at most one step is PROCESSING, and the step at
\* position i+1 is never PROCESSING while the step at position i is PENDING
\* or PROCESSING
C1_StrictSequentiality ==
  /\ Cardinality({i \in 1..Len(workflowSteps) :
                    workflowSteps[i].status = PROCESSING}) <= 1
  /\ \A i \in 1..(Len(workflowSteps) - 1) :
       workflowSteps[i + 1].status = PROCESSING => Terminal(workflowSteps[i])

\* C2: when the model call of a step fails, the step becomes FAILED with an
\* explanatory message as its content and isExecuting becomes false
C2_FailedCallFailsStep ==
  [][lastOutcome' = "streamFailed" /\ SamePlan =>
       \A i \in 1..Len(workflowSteps) :
         workflowSteps'[i] # workflowSteps[i] =>
           /\ workflowSteps'[i].status = FAILED
           /\ IsErrorMessage(workflowSteps'[i].result)
           /\ ~agentState'.isExecuting]_vars

C4_ContextChaining ==
  [][\A c \in stepCalls' \ stepCalls :
       (\A j \in 1..Len(workflowSteps) : ~HasFailed(workflowSteps[j])) =>
         \A i \in 1..Len(workflowSteps) :
           workflowSteps[i].id = c.id =>
             \A j \in 1..(i - 1) :
               /\ "result" \in DOMAIN workflowSteps[j]
               /\ IsInfix(HistoryEntry(workflowSteps[j]), c.context)]_vars

RECURSIVE EntriesOf(_, _, _)
\* one entry (description and final content) for each step of list whose
\* position is in K, in the list's order, from position i on
EntriesOf(list, K, i) ==
  IF i > Len(list) THEN <<>>
  ELSE (IF i \in K
        THEN <<(<<"PREVIOUS STEP: \"", list[i].description, "\"\nRESULT: ">>
                \o list[i].result \o <<"\n">>)>>
        ELSE <<>>)
       \o EntriesOf(list, K, i + 1)

CompletedSteps(list) == {i \in 1..Len(list) : list[i].status = COMPLETED}

CompletedWithContent(list) ==
  {i \in CompletedSteps(list) : list[i].result # <<>>}

\* C5 as stated: the context holds exactly one entry for every COMPLETED step,
\* in the list's order, and none for any other step
C5_EveryCompletedStep ==
  \A c \in stepCalls :
    c.context = Join(EntriesOf(workflowSteps, CompletedSteps(workflowSteps), 1),
                     <<"\n---\n">>)

\* C5 amended: the context holds exactly one entry for every COMPLETED step
\* whose final content is not empty, in the list's order, and none for any
\* other step
C5_CompletedWithContent ==
  \A c \in stepCalls :
    c.context = Join(EntriesOf(workflowSteps, CompletedWithContent(workflowSteps), 1),
                     <<"\n---\n">>)

\* the executor was given a list with two entries to keep and one step of
\* every other kind is possible around them
C5_Witness ==
  /\ stepCalls # {}
  /\ Cardinality(CompletedWithContent(workflowSteps)) = Len(workflowSteps)
  /\ Len(workflowSteps) >= 2
  /\ workflowSteps[1].description # workflowSteps[2].description

\* C6: every status change is PENDING -> PROCESSING, PROCESSING -> COMPLETED
\* or PROCESSING -> FAILED, as long as the list is not replaced
C6_MonotonicStatus ==
  [][SamePlan =>
       \A i \in 1..Len(workflowSteps) :
         LET before == workflowSteps[i].status
             after == workflowSteps'[i].status
         IN \/ after = before
            \/ before = PENDING /\ after = PROCESSING
            \/ before = PROCESSING /\ after \in {COMPLETED, FAILED}]_vars

\* a step of a two-step plan has completed while the other one is still in
\* its earlier status
C6_Witness ==
  /\ Len(workflowSteps) = 2
  /\ \E i, j \in 1..2 :
       /\ workflowSteps[i].status = COMPLETED
       /\ workflowSteps[j].status \in {PENDING, PROCESSING}

\* C7: currentStepId is null or the id of a step of the list that is PROCESSING
C7_CurrentStepProcessing ==
  \/ agentState.currentStepId = Null
  \/ \E i \in 1..Len(workflowSteps) :
       /\ workflowSteps[i].id = agentState.currentStepId
       /\ workflowSteps[i].status = PROCESSING

\* C8: when isExecuting goes from true to false with the list left as it is
\* (the scan found no PENDING step), every step is terminal
C8_IdleMeansAllTerminal ==
  [][/\ agentState.isExecuting
     /\ ~agentState'.isExecuting
     /\ workflowSteps' = workflowSteps
     /\ stepCalls' = stepCalls
     => \A i \in 1..Len(workflowSteps') : Terminal(workflowSteps'[i])]_vars

\* C9: when the plan reply holds no recognizable array, no workflow is
\* created: the list is empty, the error is set, the state is idle
C9_NoArrayNoWorkflow ==
  [][lastOutcome' = "noArray" =>
       /\ workflowSteps' = <<>>
       /\ error' # NoError
       /\ ~agentState'.isAnalyzing
       /\ ~agentState'.isExecuting]_vars

\* C10: when plan generation throws, handleCreateWorkflow ends with the list
\* empty, isAnalyzing false, isExecuting false and the error message set
C10_PlanThrowLeavesIdle ==
  [][lastOutcome' \in {"transportError", "parseError"} =>
       /\ workflowSteps' = <<>>
       /\ ~agentState'.isAnalyzing
       /\ ~agentState'.isExecuting
       /\ error' = PlanErrorMessage]_vars

\* C11: when the plan reply parses to an array of n descriptions, the same
\* transition leaves exactly n steps carrying those descriptions in the
\* reply's order, every one PENDING and without a result, and isExecuting true
C11_PlanInstantiation ==
  [][lastOutcome' = "array" =>
       LET described == SelectSeq(lastSettled', LAMBDA t : t \in Descriptions)
       IN /\ Len(workflowSteps') = Len(described)
          /\ \A i \in 1..Len(described) :
               /\ workflowSteps'[i].description = described[i]
               /\ workflowSteps'[i].status = PENDING
               /\ "result" \notin DOMAIN workflowSteps'[i]
          /\ agentState'.isExecuting]_vars

\* a reply with prose around an array of two different descriptions has just
\* been turned into the list
C11_Witness ==
  /\ lastOutcome = "array"
  /\ Prose \in {lastSettled[i] : i \in 1..Len(lastSettled)}
  /\ Len(workflowSteps) = 2
  /\ workflowSteps[1].description # workflowSteps[2].description

RECURSIVE Picked(_, _, _)
\* the elements of list whose position is in K, in the list's order, from
\* position i on
Picked(list, K, i) ==
  IF i > Len(list) THEN <<>>
  ELSE (IF i \in K THEN <<list[i]>> ELSE <<>>) \o Picked(list, K, i + 1)

\* C12: when several files were taken in together and the reading of some of
\* them failed, the files whose reading succeeded are added to the file set,
\* in selection order
C12_ReadableFilesAdded ==
  [][lastOutcome' = "filesRead" =>
       LET fileList == lastSettled'.fileList
           readable == lastSettled'.readable
           succeeded == {i \in 1..Len(fileList) : readable[i]}
       IN Len(fileList) > 1 /\ succeeded # 1..Len(fileList) =>
            files' = files \o Picked(fileList, succeeded, 1)]_vars

\* C13: whatever the state it is run in, handleReset leaves the file set
\* empty, the step list empty, isAnalyzing false, isExecuting false,
\* currentStepId null and the error cleared
C13_ResetClearsAll ==
  [][lastOutcome' = "reset" =>
       /\ files' = <<>>
       /\ workflowSteps' = <<>>
       /\ ~agentState'.isAnalyzing
       /\ ~agentState'.isExecuting
       /\ agentState'.currentStepId = Null
       /\ error' = NoError]_vars

\* reset has just run while a plan call and step calls were in flight
C13_Witness ==
  /\ lastOutcome = "reset"
  /\ planCalls > 0
  /\ staleCalls > 0

\* C14: executeWorkflowStep never raises - whatever the streamed call did, its
\* promise resolves, and when the call threw the pair it resolves with has
\* empty thinking and an error message as content
C14_ExecutorNeverRaises ==
  output.called =>
    /\ ~output.value.rejected
    /\ input.failed =>
         /\ output.value.thinking = <<>>
         /\ Len(output.value.result) > 1
         /\ IsErrorMessage(output.value.result)

\* the streamed call threw a value that is not an Error
C14_Witness ==
  /\ output.called
  /\ input.failed
  /\ ~input.isError

\* t is u without its leading and trailing white space
IsTrimmed(t, u) ==
  /\ t # <<>> => t[1] # WS /\ t[Len(t)] # WS
  /\ \E a \in 0..Len(u) :
       /\ a + Len(t) <= Len(u)
       /\ SubSeq(u, a + 1, a + Len(t)) = t
       /\ \A k \in (1..a) \cup ((a + Len(t) + 1)..Len(u)) : u[k] = WS

\* <think> at i and </think> at j are the first matched pair of text
FirstPair(text, i, j) ==
  /\ i < j
  /\ text[i] = OpenThink
  /\ text[j] = CloseThink
  /\ \A k \in (i + 1)..(j - 1) : text[k] # CloseThink
  /\ \A h \in 1..(i - 1) :
       text[h] = OpenThink => \A k \in (h + 1)..Len(text) : text[k] # CloseThink

\* C15: with a matched <think>...</think> pair in the text, thinking is the
\* trimmed text strictly between the first pair and content is the trimmed
\* text without that region; with no matched pair, thinking is empty and
\* content is the text unchanged
C15_ThinkingSplit ==
  output.called =>
    LET pairs == {p \in (1..Len(input)) \X (1..Len(input)) :
                    FirstPair(input, p[1], p[2])}
    IN /\ \A p \in pairs :
            /\ IsTrimmed(output.value.thinking,
                         SubSeq(input, p[1] + 1, p[2] - 1))
            /\ IsTrimmed(output.value.content,
                         SubSeq(input, 1, p[1] - 1)
                         \o SubSeq(input, p[2] + 1, Len(input)))
       /\ pairs = {} =>
            /\ output.value.thinking = <<>>
            /\ output.value.content = input

\* a text with white space to trim around both parts, and a second </think>
C15_Witness ==
  /\ output.called
  /\ Len(input) = MaxTextLen
  /\ input[1] = OpenThink
  /\ input[2] = WS
  /\ output.value.thinking # <<>>
  /\ input[Len(input)] = CloseThink
  /\ output.value.content # <<>>

\* the content of a step, empty when it has none
ContentOf(step) == IF "result" \in DOMAIN step THEN step.result ELSE <<>>

\* the description mentions report, document, write or summar, in any case
MentionsReport(step) ==
  \E word \in ReportWords : IsInfix(word, toLowerCase(step.description))

\* C16: a step is classified as a report exactly when no code block is
\* detected in its content, its status is COMPLETED, and its description
\* mentions report/document/write/summar or its content is longer than 500
\* characters; with a code block detected it is never classified as a
\* report, and the two downloads are never offered together
C16_ReportClassification ==
  output.called =>
    /\ output.value.isPotentialReport <=>
         /\ ~output.value.codeData.found
         /\ input.status = COMPLETED
         /\ MentionsReport(input) \/ StringLength(ContentOf(input)) > ReportLength
    /\ output.value.codeData.found => ~output.value.isPotentialReport
    /\ ~(output.value.downloadCode /\ output.value.downloadReport)

\* a code block with a language is detected in a content of more than 500
\* characters, under a description that mentions the word write
C16_Witness ==
  /\ output.called
  /\ output.value.codeData.found
  /\ output.value.codeData.language = <<Word>>
  /\ StringLength(ContentOf(input)) > ReportLength
  /\ MentionsReport(input)

\* the extension of a file name: what follows its last dot, in lower case;
\* a name without a dot has none
ExtensionOf(name) ==
  IF \A i \in 1..Len(name) : name[i] # Dot THEN <<>> ELSE Extension(name)

\* C17: the category is code for a known code extension whatever the media
\* type; otherwise pdf for the PDF media type or extension; otherwise image
\* for a media type starting with image/; otherwise document for a known
\* document extension or a media type containing text or document;
\* otherwise unknown
C17_CategoryPrecedence ==
  output.called =>
    LET ext == ExtensionOf(input.name)
        type == input.type
        isCode == Len(ext) = 1 /\ ext[1] \in CodeExtensions
        isPdf == type = PdfType \/ ext = <<"pdf">>
        isImage == type # <<>> /\ type[1] = "image/"
        isDocument ==
          \/ Len(ext) = 1 /\ ext[1] \in DocumentExtensions
          \/ \E i \in 1..Len(type) : type[i] \in {"text", "document"}
    IN output.value =
         IF isCode THEN "code"
         ELSE IF isPdf THEN "pdf"
         ELSE IF isImage THEN "image"
         ELSE IF isDocument THEN "document"
         ELSE "unknown"

\* C18: after a reset and until the next create-workflow request, the list
\* stays empty and no step becomes PROCESSING, whatever calls were in flight
\* when reset ran
C18_QuietAfterReset ==
  [][afterReset /\ creates' = creates =>
       /\ workflowSteps' = <<>>
       /\ \A i \in 1..Len(workflowSteps') :
            workflowSteps'[i].status # PROCESSING]_vars

\* C19: a create-workflow request takes effect only when the file set is not
\* empty and isAnalyzing and isExecuting are false, and never while a plan
\* call is outstanding or a run is in progress (a step of the list is not
\* terminal yet)
C19_CreateOnlyWhenIdle ==
  [][creates' # creates =>
       /\ Len(files) > 0
       /\ ~agentState.isAnalyzing
       /\ ~agentState.isExecuting
       /\ planCalls = 0
       /\ \A i \in 1..Len(workflowSteps) : Terminal(workflowSteps[i])]_vars

\* C20: termination - a run that has started (isExecuting true) reaches a
\* state where isExecuting is false and no step is PROCESSING
C20_RunTerminates ==
  agentState.isExecuting ~>
    (/\ ~agentState.isExecuting
     /\ \A i \in 1..Len(workflowSteps) : workflowSteps[i].status # PROCESSING)

\* the run of a two-step plan is over: both calls have returned
C20_Witness ==
  /\ ~agentState.isExecuting
  /\ Len(workflowSteps) = 2
  /\ \A i \in 1..2 : workflowSteps[i].status = COMPLETED
  /\ stepCalls = {}

====
